---- MODULE Spec2Model ----
(***************************************************************************)
(* Model of luolapeikko/env-core:                                          *)
(*   - EnvKit (packages/core-env/src/EnvKit.ts): the per-key resolution    *)
(*     engine with its dedup logger;                                       *)
(*   - AzureSecretsConfigLoader (core-env-azurekv): the remote-backed      *)
(*     loader with its single-flight expiring cache.                       *)
(* The two machines share no state; Spec runs the engine, SpecAz the       *)
(* loader, and each leaves the other machine's variables untouched.        *)
(***************************************************************************)
EXTENDS Integers, Sequences, FiniteSets, TLC

VARIABLES
    \* ---- EnvKit instance ----
    schema,      \* #schema: key -> Key Spec (fixed at construction)
    options,     \* #options: loaderError, loggingMode, namespace
    loaders,     \* #loaders: the loader list, in caller-supplied order
    seenLog,     \* #seenLog: key -> last emitted line ("" when the key has none)
    \* ---- the getEntry/get/getString invocation in progress ----
    pc,          \* "idle" | "iter" (inside the for-await loop) | "done" |
                 \* "rejected" (the promise of the call rejected) |
                 \* "list" (getResultEntryList is being consumed) | "listed"
    lookupKey,   \* its argument
    idx,         \* position of the loader iterator (next loader to resolve)
    events,      \* what the call did to loaders so far, in order
    outputs,     \* what each invoked loader's getValueResult returned, in order
    result,      \* what getEntry returned (meaningful when pc = "done")
    infoLog,     \* logger.info lines emitted by this call
    warnLog,     \* logger 'loaderError' lines emitted by this call
    lastInfo,    \* per key: the last line logger.info was called with
    thrown,      \* the operation of this call that threw, "none" if none did
    entries,     \* what getResultEntryList has yielded to its consumer
    \* ---- AzureSecretsConfigLoader instance ----
    azOptions,      \* the resolved options: disabled, expireMs, errExpireMs
    valuePromises,  \* the ExpireCache: secret name -> registered promise
    calls,          \* the #handleLoaderPromise / getSecret calls made, in order
    lookups,        \* the getRawValue invocations that reached the cache, in order
    immediate,      \* the last getRawValue answered without the cache (line 190)
    timers,         \* the pending setTimeout callbacks of line 204
    now,            \* Date.now(), in ms
    reloaded        \* reload() was called and no lookup reached the cache since

kitVars == <<schema, options, loaders, seenLog, pc, lookupKey, idx,
             events, outputs, result, infoLog, warnLog, lastInfo, thrown, entries>>

azVars == <<azOptions, valuePromises, calls, lookups, immediate, timers, now,
            reloaded>>

vars == <<kitVars, azVars>>

\* ------------------------------------------------------------------ bounds
MaxLoaders == 2

\* --------------------------------------------------------------- JS values
\* A JavaScript value: its typeof and its String() rendering.
JsUndefined == [type |-> "undefined", repr |-> "undefined"]
JsString(s) == [type |-> "string", repr |-> s]
JsBoolean(b) == [type |-> "boolean", repr |-> IF b THEN "true" ELSE "false"]

\* JavaScript truthiness, as used by `data?.value`, `!value`, `data.value && ...`
Truthy(v) ==
    CASE v.type = "undefined" -> FALSE
      [] v.type = "string" -> v.repr # ""
      [] v.type = "boolean" -> v.repr = "true"
      [] OTHER -> TRUE

\* An absent string-typed field (loaderType?: string, path?: string)
NoString == "<undefined>"

\* IResult
Ok(v) == [isOk |-> TRUE, value |-> v]
Err(e) == [isOk |-> FALSE, error |-> e]

\* ------------------------------------------------------------------ errors
\* VariableLookupError(key, message), EnvKit.ts lines 127 and 149
VariableLookupError(k, msg) ==
    [name |-> "VariableLookupError", variableKey |-> k, message |-> msg]

\* What a failing loader returns in its Err
LoaderFailure(i) ==
    [name |-> "Error", variableKey |-> NoString,
     message |-> "loader" \o ToString(i) \o " failed"]

\* What parser.parse returns in its Err
ParseFailure(raw) ==
    [name |-> "TypeError", variableKey |-> NoString,
     message |-> "cannot parse " \o raw.repr]

\* ----------------------------------------------------------------- parsers
\* parser.parse(raw): the String parser accepts every string, the Boolean
\* parser only "true" and "false".
parse(parser, raw) ==
    CASE parser = "String" -> Ok(JsString(raw.repr))
      [] parser = "Boolean" /\ raw.repr = "true" -> Ok(JsBoolean(TRUE))
      [] parser = "Boolean" /\ raw.repr = "false" -> Ok(JsBoolean(FALSE))
      [] OTHER -> Err(ParseFailure(raw))

\* parser.toString(value): the canonical string form of a typed value
toString(parser, v) == JsString(v.repr)

\* The masked rendering of the "partial" log format
Mask(s) ==
    CASE s = "true" -> "t**e"
      [] s = "4637" -> "4**7"
      [] s = "abc" -> "a*c"
      [] OTHER -> "***"

\* parser.toLogString(value, logFormat)
toLogString(parser, v, logFormat) ==
    IF logFormat = "partial" THEN Mask(v.repr) ELSE v.repr

\* ------------------------------------------------------------------ schema
\* The keys callers ask for; a schema declares one of them, so that the
\* other one is a key that is not in the schema.
LookupKeys == {"PORT", "DEBUG"}

ParserOf(k) == IF k = "PORT" THEN "String" ELSE "Boolean"

\* A typed value of the key's type that is a legal default; DEBUG's is falsy.
DefaultOf(k) == IF k = "PORT" THEN JsString("4637") ELSE JsBoolean(FALSE)

\* Loadable<T>: a value, or a producer of it resolved at the point of use
Immediate(v) == [lazy |-> FALSE, value |-> v]
Deferred(v) == [lazy |-> TRUE, value |-> v]

\* schema.defaultValue: absent, static, lazy, or lazy and resolving to undefined
DefaultChoice(k, d) ==
    CASE d = "none" -> Immediate(JsUndefined)
      [] d = "static" -> Immediate(DefaultOf(k))
      [] d = "lazy" -> Deferred(DefaultOf(k))
      [] OTHER -> Deferred(JsUndefined)

\* schema.defaultValue !== undefined: a producer is a defined value
IsDefined(l) == l.lazy \/ l.value.type # "undefined"

\* LoadableCore.resolve(loadable)
Resolve(l) == l.value

NotFoundChoices == {JsUndefined, JsBoolean(FALSE), JsBoolean(TRUE)}
LogFormatChoices == {NoString, "partial", "hidden"}

KeySpecs(k) ==
    { [parser |-> ParserOf(k),
       defaultValue |-> DefaultChoice(k, d),
       notFoundError |-> nf,
       logFormat |-> lf] :
        d \in {"none", "static", "lazy", "lazyUndefined"},
        nf \in NotFoundChoices, lf \in LogFormatChoices }

\* The schemas the engine is constructed with: one declared key, with the
\* parser and the default of its own type.
Schemas == UNION { { k :> ks : ks \in KeySpecs(k) } : k \in LookupKeys }

OptionChoices ==
    [loaderError : {NoString, "log", "throws"},
     loggingMode : {NoString, "single", "always"},
     namespace : {NoString}]

\* ----------------------------------------------------------------- loaders
\* loader.loaderType of the loader at position i of the list
LoaderTypeOf(i) == "loader" \o ToString(i)

\* The provenance a loader reports with a value
LoaderPath(i, k) == LoaderTypeOf(i) \o ":" \o k

\* LoaderValueResult | undefined
NoData == [path |-> NoString, value |-> JsUndefined, present |-> FALSE]
Data(path, v) == [path |-> path, value |-> v, present |-> TRUE]

\* The raw strings a loader may carry: empty, parsable by both parsers,
\* parsable by the String parser only
RawValues == {JsString(""), JsString("true"), JsString("abc")}

\* What loader.getValueResult(key) may return
LoaderOutputs(i, k) ==
    {Err(LoaderFailure(i)), Ok(NoData)}
        \cup {Ok(Data(LoaderPath(i, k), v)) : v \in RawValues}

\* Mutant of #getLoaderEntry: the loader's own path is dropped for the key
getLoaderEntry_DropsPath(i, k, res) ==
    IF ~res.isOk THEN res
    ELSE Ok([loaderType |-> LoaderTypeOf(i), path |-> k,
             value |-> res.value.value])

\* #getLoaderEntry: tag the loader's result with its loaderType
getLoaderEntry(i, k, res) ==
    IF ~res.isOk THEN res
    ELSE IF ~res.value.present
         THEN Ok([loaderType |-> LoaderTypeOf(i), path |-> k, value |-> JsUndefined])
         ELSE Ok([loaderType |-> LoaderTypeOf(i), path |-> res.value.path,
                  value |-> res.value.value])

\* -------------------------------------------------------------- dedup logger
\* Mutant of lines 200-202: "hidden" is rendered like "plain"
printValue_HiddenAsPlain(data, keySpec) ==
    IF ~Truthy(data.value) THEN " [undefined]"
    ELSE " [" \o toLogString(keySpec.parser, data.value, "plain") \o "]"

\* #printValue
printValue(data, keySpec) ==
    LET logFormat == IF keySpec.logFormat = NoString THEN "plain"
                     ELSE keySpec.logFormat
    IN  IF logFormat = "hidden" THEN ""
        ELSE IF ~Truthy(data.value) THEN " [undefined]"
        ELSE " [" \o toLogString(keySpec.parser, data.value, logFormat) \o "]"

\* #printLog: the line rendered for a resolved entry
LogOutput(k, data, keySpec) ==
    LET namespaceString == IF options.namespace # NoString
                           THEN ":" \o options.namespace ELSE ""
    IN  IF data.loaderType # NoString
        THEN "ConfigVariables" \o namespaceString \o "[" \o data.loaderType \o "]: "
                 \o k \o printValue(data, keySpec) \o " from " \o data.path
        ELSE "ConfigVariables" \o namespaceString \o ": " \o k
                 \o printValue(data, keySpec)

\* Mutant of line 193: every rendered line is emitted
LogEmits_Always(k, output) == TRUE

\* #printLog: whether the rendered line is emitted (and remembered)
LogEmits(k, output) ==
    options.loggingMode = "always" \/ output # seenLog[k]

\* #printLog, as the change it makes to #seenLog and the logger
printLog(k, data, keySpec) ==
    LET output == LogOutput(k, data, keySpec)
    IN  IF LogEmits(k, output)
        THEN /\ seenLog' = [seenLog EXCEPT ![k] = output]
             /\ infoLog' = Append(infoLog, output)
             /\ lastInfo' = [lastInfo EXCEPT ![k] = output]
        ELSE UNCHANGED <<seenLog, infoLog, lastInfo>>

\* --------------------------------------------------------- public projections
NoResult == [isOk |-> FALSE, error |-> [name |-> "pending"]]

\* The end of getEntry (line 102): what #getEntry returned, after
\* inspectOk(#printLog).
Return(r) ==
    /\ pc' = "done"
    /\ result' = r
    /\ IF r.isOk
       THEN printLog(lookupKey, r.value, schema[lookupKey])
       ELSE UNCHANGED <<seenLog, infoLog, lastInfo>>

\* ------------------------------------------------- pieces of #getEntry
\* Mutant of line 131: a loader failure never ends the lookup
abortsOnError_Never(entry) == FALSE

\* Mutant of line 131: only an explicit "log" keeps the lookup going
abortsOnError_UnlessLog(entry) == options.loaderError # "log" /\ ~entry.isOk

\* line 131: the loop returns the loader's failure at once
abortsOnError(entry) == options.loaderError = "throws" /\ ~entry.isOk

\* line 135: the loader's entry carries a usable raw value
hasValue(entry) == entry.isOk /\ Truthy(entry.value.value)

\* Mutant of lines 136-138: a rejected raw value is passed on unparsed
parsedEntry_SwallowsParseError(data, parsed) ==
    Ok([loaderType |-> data.loaderType, path |-> data.path,
        value |-> IF parsed.isOk THEN parsed.value ELSE data.value])

\* lines 136-138: the parser's result, tagged with the loader's provenance
parsedEntry(data, parsed) ==
    IF parsed.isOk
    THEN Ok([loaderType |-> data.loaderType, path |-> data.path,
             value |-> parsed.value])
    ELSE parsed

\* Mutant of line 146: the default is reported under the bare key
defaultEntry_BareKey(k, defaultValue) ==
    Ok([loaderType |-> "defaultValue", path |-> k, value |-> defaultValue])

\* line 146: the schema default
defaultEntry(k, defaultValue) ==
    Ok([loaderType |-> "defaultValue", path |-> "key:" \o k, value |-> defaultValue])

\* Mutant of line 149: the required flag is ignored
missingError_Ignored(k) ==
    Ok([loaderType |-> NoString, path |-> k, value |-> JsUndefined])

\* line 149: required and missing
missingError(k) ==
    Err(VariableLookupError(k, "Missing required value for key: " \o k))

\* Mutant of lines 151-155: the absent value is reported like a default
softMissing_AsDefault(k) ==
    Ok([loaderType |-> "defaultValue", path |-> "key:" \o k, value |-> JsUndefined])

\* lines 151-155: optional and absent
softMissing(k) ==
    Ok([loaderType |-> NoString, path |-> k, value |-> JsUndefined])

\* Mutant of lines 126-128: a key without a schema entry counts as optional
undeclaredError_AsSoftMissing(k) == softMissing(k)

\* lines 126-128: the key has no schema entry
undeclaredError(k) ==
    Err(VariableLookupError(k, "Key \"" \o k \o "\" is not defined in schema"))

\* this.#schema[lookupKey] (lines 101, 120, 125); undefined for other keys
NoKeySpec ==
    [parser |-> NoString, defaultValue |-> Immediate(JsUndefined),
     notFoundError |-> JsUndefined, logFormat |-> NoString]

SchemaOf(k) == IF k \in DOMAIN schema THEN schema[k] ELSE NoKeySpec

\* ------------------------------------------------------------------ actions
\* A caller invokes getEntry (directly, or through get or getString):
\* #getEntry up to its first suspension (lines 125-130).
getEntry(k) ==
    /\ pc \in {"idle", "done", "rejected", "listed"}
    /\ lookupKey' = k
    /\ events' = <<>>
    /\ outputs' = <<>>
    /\ warnLog' = <<>>
    /\ idx' = 1
    /\ thrown' = "none"
    /\ entries' = <<>>
    /\ IF k \notin DOMAIN schema
       THEN /\ pc' = "done"
            /\ result' = undeclaredError(k)
            /\ infoLog' = <<>>
            /\ UNCHANGED <<seenLog, lastInfo>>
       ELSE /\ pc' = "iter"
            /\ result' = NoResult
            /\ infoLog' = <<>>
            /\ UNCHANGED <<seenLog, lastInfo>>
    /\ UNCHANGED <<schema, options, loaders>>
    /\ UNCHANGED azVars

\* One round of the for-await loop of #getEntry (lines 130-140): the loader
\* iterator resolves the next loader (line 174), the result iterator invokes
\* it (lines 168, 179), and the loop body handles what it returned.
LoaderStep ==
    /\ pc = "iter"
    /\ idx <= Len(loaders)
    /\ \E res \in LoaderOutputs(loaders[idx], lookupKey) :
        LET i == loaders[idx]
            entry == getLoaderEntry(i, lookupKey, res)
        IN  /\ events' = events \o <<[op |-> "resolve", loader |-> i],
                                     [op |-> "getValueResult", loader |-> i]>>
            /\ outputs' = Append(outputs, res)
            /\ IF abortsOnError(entry)
               THEN /\ Return(entry)
                    /\ UNCHANGED <<idx, warnLog>>
               ELSE /\ warnLog' = IF entry.isOk THEN warnLog
                                  ELSE Append(warnLog, "Loader error: " \o lookupKey
                                                \o " " \o entry.error.message)
                    /\ IF hasValue(entry)
                       THEN /\ Return(parsedEntry(entry.value,
                                         parse(schema[lookupKey].parser,
                                               entry.value.value)))
                            /\ UNCHANGED idx
                       ELSE /\ idx' = idx + 1
                            /\ UNCHANGED <<pc, result, seenLog, infoLog, lastInfo>>
    /\ UNCHANGED <<schema, options, loaders, lookupKey, thrown, entries>>
    /\ UNCHANGED azVars

\* The loader iterator is exhausted: default, required-and-missing, or
\* soft-missing (lines 141-155).
Exhausted ==
    LET keySpec == schema[lookupKey]
        defaultValue == IF IsDefined(keySpec.defaultValue)
                        THEN Resolve(keySpec.defaultValue) ELSE JsUndefined
    IN  /\ pc = "iter"
        /\ idx > Len(loaders)
        /\ Return(IF defaultValue.type # "undefined"
                  THEN defaultEntry(lookupKey, defaultValue)
                  ELSE IF Truthy(keySpec.notFoundError)
                  THEN missingError(lookupKey)
                  ELSE softMissing(lookupKey))
        /\ UNCHANGED <<schema, options, loaders, lookupKey, idx, events,
                       outputs, warnLog, thrown, entries>>
        /\ UNCHANGED azVars

\* ------------------------------------------------ getResultEntryList
\* An absent error (res.err() of an Ok result)
NoError == [name |-> NoString, variableKey |-> NoString, message |-> NoString]

\* Mutant of line 161: the entry does not name its loader
ResultEntry_Anonymous(i, res) ==
    [error |-> IF res.isOk THEN NoError ELSE res.error,
     loaderType |-> NoString,
     path |-> IF res.isOk THEN res.value.path ELSE NoString,
     value |-> IF res.isOk THEN res.value.value ELSE JsUndefined]

\* line 161: {error: res.err(), loaderType, path: res.ok()?.path,
\* value: res.ok()?.value}
ResultEntry(i, res) ==
    [error |-> IF res.isOk THEN NoError ELSE res.error,
     loaderType |-> LoaderTypeOf(i),
     path |-> IF res.isOk THEN res.value.path ELSE NoString,
     value |-> IF res.isOk THEN res.value.value ELSE JsUndefined]

\* A consumer starts iterating getResultEntryList(k) (line 158); the key is
\* not looked up in the schema.
getResultEntryList(k) ==
    /\ pc \in {"idle", "done", "listed", "list"}
    /\ pc' = "list"
    /\ lookupKey' = k
    /\ idx' = 1
    /\ events' = <<>>
    /\ outputs' = <<>>
    /\ entries' = <<>>
    /\ result' = NoResult
    /\ infoLog' = <<>>
    /\ warnLog' = <<>>
    /\ thrown' = "none"
    /\ UNCHANGED <<schema, options, loaders, seenLog, lastInfo>>
    /\ UNCHANGED azVars

\* The consumer pulls the next entry (lines 159-161): the loader iterator
\* resolves the next loader, the loader is invoked, its result is yielded.
ListStep ==
    /\ pc = "list"
    /\ idx <= Len(loaders)
    /\ \E res \in LoaderOutputs(loaders[idx], lookupKey) :
          /\ events' = events \o <<[op |-> "resolve", loader |-> loaders[idx]],
                                   [op |-> "getValueResult", loader |-> loaders[idx]]>>
          /\ outputs' = Append(outputs, res)
          /\ entries' = Append(entries, ResultEntry(loaders[idx], res))
    /\ idx' = idx + 1
    /\ UNCHANGED <<schema, options, loaders, seenLog, pc, lookupKey, result,
                   infoLog, warnLog, lastInfo, thrown>>
    /\ UNCHANGED azVars

\* The loader iterator is exhausted: the generator returns (line 163)
ListEnd ==
    /\ pc = "list"
    /\ idx > Len(loaders)
    /\ pc' = "listed"
    /\ UNCHANGED <<schema, options, loaders, seenLog, lookupKey, idx, events,
                   outputs, result, infoLog, warnLog, lastInfo, thrown, entries>>
    /\ UNCHANGED azVars

\* ------------------------------------------- collaborators that throw
\* The promise of the running call rejects with what `op` threw: no
\* statement of lines 100-185 catches, so the exception leaves #getEntry,
\* getEntry and with it get and getString.
Rejects(op) ==
    /\ pc' = "rejected"
    /\ thrown' = op
    /\ UNCHANGED <<schema, options, loaders, lookupKey, idx, result, warnLog,
                   entries>>
    /\ UNCHANGED azVars

\* line 174: LoadableCore.resolve(loader) of a lazily supplied loader rejects
LoaderResolveThrows ==
    /\ pc = "iter"
    /\ idx <= Len(loaders)
    /\ events' = Append(events, [op |-> "resolve", loader |-> loaders[idx]])
    /\ Rejects("resolve")
    /\ UNCHANGED <<outputs, seenLog, infoLog, lastInfo>>

\* line 179: loader.getValueResult(key) throws instead of returning Err
GetValueResultThrows ==
    /\ pc = "iter"
    /\ idx <= Len(loaders)
    /\ events' = events \o <<[op |-> "resolve", loader |-> loaders[idx]],
                             [op |-> "getValueResult", loader |-> loaders[idx]]>>
    /\ Rejects("getValueResult")
    /\ UNCHANGED <<outputs, seenLog, infoLog, lastInfo>>

\* The loader at idx returns res and the loop body reaches the parser
ReachesParser(res) ==
    LET entry == getLoaderEntry(loaders[idx], lookupKey, res)
    IN  ~abortsOnError(entry) /\ hasValue(entry)

\* line 136: parser.parse(value) throws instead of returning Err
ParserThrows ==
    /\ pc = "iter"
    /\ idx <= Len(loaders)
    /\ \E res \in LoaderOutputs(loaders[idx], lookupKey) :
          /\ ReachesParser(res)
          /\ events' = events \o <<[op |-> "resolve", loader |-> loaders[idx]],
                                   [op |-> "getValueResult", loader |-> loaders[idx]]>>
          /\ outputs' = Append(outputs, res)
    /\ Rejects("parse")
    /\ UNCHANGED <<seenLog, infoLog, lastInfo>>

\* line 143: LoadableCore.resolve(schema.defaultValue) of a lazy default rejects
DefaultThrows ==
    /\ pc = "iter"
    /\ idx > Len(loaders)
    /\ schema[lookupKey].defaultValue.lazy
    /\ Rejects("default")
    /\ UNCHANGED <<events, outputs, seenLog, infoLog, lastInfo>>

\* #printLog throws inside the inspectOk of line 102, which runs it in the
\* turn of getEntry: parser.toLogString (line 206) before anything is
\* recorded, or logger.info (line 195) after #seenLog was set (line 194).
LogThrows(r, op) ==
    LET k == lookupKey
        output == LogOutput(k, r.value, schema[k])
    IN  /\ r.isOk
        /\ \/ /\ op = "toLogString"
              /\ schema[k].logFormat # "hidden"
              /\ Truthy(r.value.value)
              /\ UNCHANGED <<seenLog, lastInfo>>
           \/ /\ op = "logger.info"
              /\ LogEmits(k, output)
              /\ seenLog' = [seenLog EXCEPT ![k] = output]
              /\ lastInfo' = [lastInfo EXCEPT ![k] = output]
        /\ UNCHANGED infoLog
        /\ Rejects(op)

\* The lookup found a value (lines 135-138) and logging it throws
LoaderStepLogThrows ==
    /\ pc = "iter"
    /\ idx <= Len(loaders)
    /\ \E res \in LoaderOutputs(loaders[idx], lookupKey),
          op \in {"toLogString", "logger.info"} :
          LET entry == getLoaderEntry(loaders[idx], lookupKey, res)
          IN  /\ ReachesParser(res)
              /\ events' = events \o <<[op |-> "resolve", loader |-> loaders[idx]],
                                       [op |-> "getValueResult", loader |-> loaders[idx]]>>
              /\ outputs' = Append(outputs, res)
              /\ LogThrows(parsedEntry(entry.value,
                               parse(schema[lookupKey].parser, entry.value.value)),
                           op)

\* The lookup ended after the last loader (lines 141-155) and logging its
\* outcome throws
ExhaustedLogThrows ==
    LET keySpec == schema[lookupKey]
        defaultValue == IF IsDefined(keySpec.defaultValue)
                        THEN Resolve(keySpec.defaultValue) ELSE JsUndefined
    IN  /\ pc = "iter"
        /\ idx > Len(loaders)
        /\ \E op \in {"toLogString", "logger.info"} :
              LogThrows(IF defaultValue.type # "undefined"
                        THEN defaultEntry(lookupKey, defaultValue)
                        ELSE IF Truthy(keySpec.notFoundError)
                        THEN missingError(lookupKey)
                        ELSE softMissing(lookupKey),
                        op)
        /\ UNCHANGED <<events, outputs>>

LoaderLists == {[i \in 1..n |-> i] : n \in 0..MaxLoaders}

\* The EnvKit instance after construction
KitInit ==
    /\ schema \in Schemas
    /\ options \in OptionChoices
    /\ loaders \in LoaderLists
    /\ seenLog = [k \in DOMAIN schema |-> ""]
    /\ pc = "idle"
    /\ lookupKey = "PORT"
    /\ idx = 1
    /\ events = <<>>
    /\ outputs = <<>>
    /\ result = NoResult
    /\ infoLog = <<>>
    /\ warnLog = <<>>
    /\ lastInfo = [k \in DOMAIN schema |-> ""]
    /\ thrown = "none"
    /\ entries = <<>>

\* =============================================== AzureSecretsConfigLoader
\* ------------------------------------------------------------------ bounds
MaxLookups == 3
MaxTicks == 2

\* ---------------------------------------------------------------- constants
\* options.errExpireMs ?? 60000 (line 206)
DefaultErrExpireMs == 60000

\* The clock advances in steps of half the default backoff window.
TickMs == DefaultErrExpireMs \div 2

\* An option that is not set (expireMs, errExpireMs: lines 103, 105)
NoMs == -1

\* #keySecretMap, as in the class example (lines 118-125): API_SERVER is
\* mapped to a secret name, PORT is "not in KV".
KeySecretMap ==
    [k \in {"API_SERVER", "PORT"} |->
        IF k = "API_SERVER" THEN "backend-service-url" ELSE NoString]

AzKeys == DOMAIN KeySecretMap
Secrets == {KeySecretMap[k] : k \in AzKeys} \ {NoString}

AzOptionChoices ==
    [disabled : BOOLEAN, expireMs : {NoMs, TickMs}, errExpireMs : {NoMs, TickMs}]

\* ------------------------------------------------------------- ExpireCache
\* No promise registered for the key
NoEntry == [call |-> 0, expires |-> NoMs]

\* The entry ExpireCache.set stores: it expires defaultExpireMs after being
\* set, when a default is set
CacheEntry(c, expireMs, t) ==
    [call |-> c, expires |-> IF expireMs = NoMs THEN NoMs ELSE t + expireMs]

\* An entry whose time to live has run out
IsExpired(e, t) == e.call # 0 /\ e.expires # NoMs /\ e.expires < t

\* ExpireCache.get drops what has expired before it looks the key up
CleanExpired(cache, t) ==
    [s \in DOMAIN cache |-> IF IsExpired(cache[s], t) THEN NoEntry ELSE cache[s]]

\* Mutant of ExpireCache.clear: promises that have not settled are kept
Cleared_KeepsInFlight(cache) ==
    [s \in DOMAIN cache |->
        IF cache[s].call # 0 /\ calls[cache[s].call].status = "pending"
        THEN cache[s] ELSE NoEntry]

\* ExpireCache.clear
Cleared(cache) == [s \in DOMAIN cache |-> NoEntry]

\* ExpireCache.delete
Deleted(cache, s) == [cache EXCEPT ![s] = NoEntry]

\* ------------------------------------------------------------- bookkeeping
\* The remote calls whose promise is in `before` and no longer in `after`
RemovedBetween(before, after) ==
    {before[s].call : s \in {x \in DOMAIN before :
                                before[x].call # 0 /\ after[x].call # before[x].call}}

IsPending(c) == calls[c].status = "pending"

\* The calls, with the promises of `gone` marked as removed by `cause`
NoteRemovals(cs, gone, cause) ==
    [c \in 1..Len(cs) |->
        IF c \in gone THEN [cs[c] EXCEPT !.removedBy = cause] ELSE cs[c]]

\* No getRawValue was answered without the cache yet
NoImmediate == [key |-> NoString, path |-> NoString, value |-> JsUndefined]

\* ------------------------------------------------------------------ actions
\* Mutant of lines 193-194: the cache is not consulted
cachedPromise_Ignored(cache, key) == 0

\* line 193: lastValuePromise = this.valuePromises.get(key), on a cache with
\* the expired entries dropped; 0 when there is none
cachedPromise(cache, key) == cache[key].call

\* Mutant of line 196: the promise is not registered
registered_Skipped(cache, key, entry) == cache

\* line 196: this.valuePromises.set(key, lastValuePromise)
registered(cache, key, entry) == [cache EXCEPT ![key] = entry]

\* Mutant of line 189: the disabled option is not looked at
answersImmediately_IgnoresDisabled(key) == key = NoString

\* line 189: !key || options.disabled
answersImmediately(key) == key = NoString \/ azOptions.disabled

\* line 206: options.errExpireMs ?? 60000
errExpireDelay ==
    IF azOptions.errExpireMs = NoMs THEN DefaultErrExpireMs
    ELSE azOptions.errExpireMs

\* getRawValue(lookupKey), lines 186-211, up to the await of line 197 (the
\* options resolve within the turn of the call).
getRawValue(azKey) ==
    LET key == KeySecretMap[azKey]
    IN  /\ IF answersImmediately(key)
           THEN \* line 190: Ok({path: options.url, value: undefined})
                /\ immediate' = [key |-> azKey, path |-> "options.url",
                                 value |-> JsUndefined]
                /\ UNCHANGED <<valuePromises, calls, lookups, reloaded>>
           ELSE LET cleaned == CleanExpired(valuePromises, now)
                    noted == NoteRemovals(calls,
                                 RemovedBetween(valuePromises, cleaned), "ttl")
                    last == cachedPromise(cleaned, key)
                IN  /\ Len(lookups) < MaxLookups
                    /\ reloaded' = FALSE
                    /\ UNCHANGED immediate
                    /\ IF last = 0
                       THEN \* lines 195-196: start the remote call, register it
                            /\ calls' = Append(noted,
                                   [secret |-> key, status |-> "pending",
                                    settledAt |-> NoMs, removedBy |-> "none"])
                            /\ valuePromises' =
                                   registered(cleaned, key,
                                       CacheEntry(Len(calls) + 1, azOptions.expireMs, now))
                            /\ lookups' = Append(lookups,
                                   [call |-> Len(calls) + 1, result |-> "pending"])
                       ELSE \* line 209: return the registered promise
                            /\ calls' = noted
                            /\ valuePromises' = cleaned
                            /\ lookups' = Append(lookups,
                                   [call |-> last, result |-> calls[last].status])
        /\ UNCHANGED <<azOptions, timers, now>>
        /\ UNCHANGED kitVars

\* The remote getSecret of call c settles (lines 213-225), and the lookup
\* that registered it resumes after its await (lines 197-207): on Err it
\* schedules the removal of the key. Every lookup holding the promise
\* receives the result.
getSecretSettles(c, outcome) ==
    /\ c \in 1..Len(calls)
    /\ IsPending(c)
    /\ calls' = [calls EXCEPT ![c] = [@ EXCEPT !.status = outcome,
                                               !.settledAt = now]]
    /\ lookups' = [l \in 1..Len(lookups) |->
                      IF lookups[l].call = c
                      THEN [lookups[l] EXCEPT !.result = outcome]
                      ELSE lookups[l]]
    /\ timers' = IF outcome = "error"
                 THEN timers \cup {[key |-> calls[c].secret, due |-> now + errExpireDelay]}
                 ELSE timers
    /\ UNCHANGED <<azOptions, valuePromises, now, immediate, reloaded>>
    /\ UNCHANGED kitVars

\* The setTimeout callback of lines 204-206: this.valuePromises.delete(key)
errExpireTimer(t) ==
    /\ t \in timers
    /\ t.due <= now
    /\ timers' = timers \ {t}
    /\ valuePromises' = Deleted(valuePromises, t.key)
    /\ calls' = NoteRemovals(calls,
                    RemovedBetween(valuePromises, Deleted(valuePromises, t.key)),
                    "timer")
    /\ UNCHANGED <<azOptions, lookups, now, immediate, reloaded>>
    /\ UNCHANGED kitVars

\* reload(), lines 177-179
reload ==
    /\ valuePromises' = Cleared(valuePromises)
    /\ calls' = NoteRemovals(calls,
                    RemovedBetween(valuePromises, Cleared(valuePromises)), "reload")
    /\ reloaded' = TRUE
    /\ UNCHANGED <<azOptions, lookups, timers, now, immediate>>
    /\ UNCHANGED kitVars

\* Time passes; a timer that is due runs before the clock moves on. The
\* clock is only read through the timers and the expiry of cache entries, so
\* it is advanced only while one of them lies ahead.
Tick ==
    /\ now + TickMs <= MaxTicks * TickMs
    /\ \A t \in timers : t.due > now
    /\ \/ timers # {}
       \/ \E s \in DOMAIN valuePromises :
             valuePromises[s].call # 0 /\ valuePromises[s].expires >= now
    /\ now' = now + TickMs
    /\ UNCHANGED <<azOptions, valuePromises, calls, lookups, immediate, timers,
                   reloaded>>
    /\ UNCHANGED kitVars

\* The loader after construction and init(), lines 148-172
AzInit ==
    /\ azOptions \in AzOptionChoices
    /\ valuePromises = [s \in Secrets |-> NoEntry]
    /\ calls = <<>>
    /\ lookups = <<>>
    /\ immediate = NoImmediate
    /\ timers = {}
    /\ now = 0
    /\ reloaded = FALSE

\* --------------------------------------------------------- specifications
\* The loader while the engine runs, and the engine while the loader runs
AzIdle ==
    /\ azOptions = [disabled |-> TRUE, expireMs |-> NoMs, errExpireMs |-> NoMs]
    /\ valuePromises = [s \in Secrets |-> NoEntry]
    /\ calls = <<>>
    /\ lookups = <<>>
    /\ immediate = NoImmediate
    /\ timers = {}
    /\ now = 0
    /\ reloaded = FALSE

KitIdle ==
    /\ schema = ("PORT" :> [parser |-> "String",
                            defaultValue |-> Immediate(JsUndefined),
                            notFoundError |-> JsUndefined, logFormat |-> NoString])
    /\ options = [loaderError |-> NoString, loggingMode |-> NoString,
                  namespace |-> NoString]
    /\ loaders = <<>>
    /\ seenLog = [k \in {"PORT"} |-> ""]
    /\ pc = "idle"
    /\ lookupKey = "PORT"
    /\ idx = 1
    /\ events = <<>>
    /\ outputs = <<>>
    /\ result = NoResult
    /\ infoLog = <<>>
    /\ warnLog = <<>>
    /\ lastInfo = [k \in DOMAIN schema |-> ""]
    /\ thrown = "none"
    /\ entries = <<>>

Init == KitInit /\ AzIdle

Next ==
    \/ \E k \in LookupKeys : getEntry(k)
    \/ LoaderStep
    \/ Exhausted

Spec == Init /\ [][Next]_vars

\* The engine with consumers of getResultEntryList, which neither reads nor
\* writes what getEntry keeps (#seenLog)
NextList ==
    \/ \E k \in LookupKeys : getResultEntryList(k)
    \/ ListStep
    \/ ListEnd

SpecList == Init /\ [][NextList]_vars

\* The engine with loaders, parsers, defaults and loggers that may throw
NextFaulty ==
    \/ Next
    \/ LoaderResolveThrows
    \/ GetValueResultThrows
    \/ ParserThrows
    \/ DefaultThrows
    \/ LoaderStepLogThrows
    \/ ExhaustedLogThrows

SpecFaulty == Init /\ [][NextFaulty]_vars

InitAz == AzInit /\ KitIdle

NextAz ==
    \/ \E k \in AzKeys : getRawValue(k)
    \/ \E c \in 1..MaxLookups, outcome \in {"value", "error"} :
          getSecretSettles(c, outcome)
    \/ \E t \in timers : errExpireTimer(t)
    \/ reload
    \/ Tick

SpecAz == InitAz /\ [][NextAz]_vars

\* ------------------------------------------------- get and getString
\* get (line 111): getEntry(...).andThen(data => Ok(data.value))
get(r) == IF r.isOk THEN Ok(r.value.value) ELSE r

\* getString (lines 120-121):
\* getEntry(...).andThen(data => Ok(data.value && parser.toString(data.value)))
getString(r, keySpec) ==
    IF r.isOk
    THEN Ok(IF Truthy(r.value.value)
            THEN toString(keySpec.parser, r.value.value)
            ELSE r.value.value)
    ELSE r

\* ====================================================== resolution engine
\* Vocabulary of the properties below, stated on what the loaders returned.
Done == pc = "done"
Declared == lookupKey \in DOMAIN schema

\* The loader's getValueResult is Ok with a defined, non-empty value
Yields(res) ==
    /\ res.isOk
    /\ res.value.present
    /\ res.value.value.type = "string"
    /\ res.value.value.repr # ""

Failed(res) == ~res.isOk

\* Loaders 1..j of the list were resolved and invoked, one after the other
InvokedInOrder(j) ==
    /\ Len(events) = 2 * j
    /\ \A m \in 1..j :
          /\ events[2 * m - 1] = [op |-> "resolve", loader |-> loaders[m]]
          /\ events[2 * m] = [op |-> "getValueResult", loader |-> loaders[m]]

NoLoaderYields == \A j \in 1..Len(outputs) : ~Yields(outputs[j])

\* The lookup was ended by a loader failure under loaderError = "throws"
AbortedByFailure ==
    options.loaderError = "throws" /\ \E j \in 1..Len(outputs) : Failed(outputs[j])

ParserAccepts(raw) ==
    IF schema[lookupKey].parser = "Boolean" THEN raw.repr \in {"true", "false"}
    ELSE TRUE

TypedValue(raw) ==
    IF schema[lookupKey].parser = "Boolean" THEN JsBoolean(raw.repr = "true")
    ELSE raw

\* C1 as stated: getEntry returns Ok with the parsed value, the loaderType and
\* the path of the first loader that yields a defined, non-empty value, having
\* resolved and invoked the loaders in list order up to that loader only.
C1_AsStated ==
    (Done /\ Declared) =>
        \A j \in 1..Len(outputs) :
            Yields(outputs[j]) =>
                /\ InvokedInOrder(j)
                /\ result.isOk
                /\ result.value.loaderType = LoaderTypeOf(loaders[j])
                /\ result.value.path = outputs[j].value.path

\* C1, amended: in every state the loaders invoked so far are a prefix of the
\* list, resolved and invoked one at a time in list order; a loader that
\* yields a defined, non-empty value is the last one invoked and ends the
\* lookup; and when the parser accepts its raw value, getEntry returns Ok with
\* the parsed value, that loader's loaderType and its path.
C1_FirstHit ==
    Declared =>
        /\ InvokedInOrder(Len(outputs))
        /\ Len(outputs) <= Len(loaders)
        /\ \A j \in 1..Len(outputs) :
              Yields(outputs[j]) =>
                  /\ j = Len(outputs)
                  /\ Done
                  /\ ParserAccepts(outputs[j].value.value) =>
                        result = Ok([loaderType |-> LoaderTypeOf(loaders[j]),
                                     path |-> outputs[j].value.path,
                                     value |-> TypedValue(outputs[j].value.value)])

\* C1 witness: the second of two loaders yields after the first had no value,
\* and the lookup returned its parsed value.
C1_Witness ==
    /\ Done /\ Declared /\ result.isOk
    /\ Len(loaders) = 2 /\ Len(outputs) = 2
    /\ ~Yields(outputs[1]) /\ Yields(outputs[2])
    /\ result.value.loaderType = LoaderTypeOf(loaders[2])
    /\ result.value.value.type = "boolean"

\* ============================================== AzureSecretsConfigLoader
\* Vocabulary of the properties below.
\* This step is a getRawValue of a mapped key that reached the cache
IsLookupStep == Len(lookups') = Len(lookups) + 1

\* The lookup made by this step
ThisLookup == lookups'[Len(lookups')]

\* This step starts a remote getSecret call
StartsCall == Len(calls') = Len(calls) + 1
StartsNoCall == Len(calls') = Len(calls)

CallsOf(s) == {c \in 1..Len(calls) : calls[c].secret = s}
Outstanding(s) == {c \in CallsOf(s) : IsPending(c)}

\* The call of the secret that was started last
IsLatestCall(c) == \A d \in CallsOf(calls[c].secret) : d <= c

\* The lookups that hold the promise of call c
LookupsOf(c) == {l \in 1..Len(lookups) : lookups[l].call = c}

\* C2: single-flight. A lookup of a mapped secret made while a remote call
\* for that secret is still unresolved, with no reload and no expiry of its
\* cache entry up to the lookup, starts no remote call and holds that call's
\* promise; and all lookups holding one promise receive the one result of
\* its call.
C2_SingleFlight ==
    [][ /\ IsLookupStep =>
             \A c \in 1..Len(calls) :
                (IsPending(c) /\ calls'[c].removedBy = "none")
                   => (StartsNoCall /\ ThisLookup.call = c)
        /\ \A l \in 1..Len(lookups') :
              lookups'[l].result = calls'[lookups'[l].call].status
      ]_vars

\* Three lookups were made before the one remote call resolved, and all three
\* received its result.
C2_Witness ==
    /\ Len(lookups) >= 3
    /\ Len(calls) = 1
    /\ calls[1].status = "value"
    /\ calls[1].settledAt > 0
    /\ \A l \in 1..Len(lookups) :
          lookups[l].call = 1 /\ lookups[l].result = "value"

\* C3: error backoff. After the remote call c of a secret failed, and while
\* no newer call of the secret exists and neither reload() nor the success
\* TTL removed its entry: a lookup made before errExpireMs has passed since
\* the failure holds the failed promise and starts no call; a lookup made
\* after it has passed starts a new call.
C3_ErrorBackoff ==
    [][ IsLookupStep =>
          \A c \in 1..Len(calls) :
             (/\ calls[c].status = "error"
              /\ IsLatestCall(c)
              /\ calls'[c].removedBy \notin {"reload", "ttl"})
                => /\ now < calls[c].settledAt + errExpireDelay
                        => (StartsNoCall /\ ThisLookup.call = c
                            /\ ThisLookup.result = "error")
                   /\ now > calls[c].settledAt + errExpireDelay
                        => (StartsCall /\ ThisLookup.call = Len(calls'))
      ]_vars

\* C4 as stated: never more than one unresolved remote call per secret.
C4_AsStated ==
    \A s \in Secrets : Cardinality(Outstanding(s)) <= 1

\* C4: of the unresolved remote calls of a secret, at most one has its
\* promise still registered in the cache; the others are calls whose entry
\* was removed (reload, expiry of the TTL, a backoff timer) while they were
\* unresolved.
C4_OneOutstandingPerEntry ==
    \A s \in Secrets :
       /\ Cardinality({c \in Outstanding(s) : calls[c].removedBy = "none"}) <= 1
       /\ \A c \in Outstanding(s) :
             calls[c].removedBy = "none" <=> valuePromises[s].call = c

\* Two lookups share the registered unresolved call, next to an unresolved
\* call whose entry was removed.
C4_Witness ==
    \E s \in Secrets :
       \E c, d \in Outstanding(s) :
          /\ calls[c].removedBy # "none"
          /\ calls[d].removedBy = "none"
          /\ Cardinality(LookupsOf(d)) >= 2

\* ====================================================== resolution engine
\* C5 as stated: a key with a default and no value from any loader resolves
\* to Ok(default, "defaultValue", "key:<key>").
C5_AsStated ==
    (Done /\ Declared /\ schema[lookupKey].defaultValue.value.type # "undefined"
          /\ NoLoaderYields) =>
        result = Ok([loaderType |-> "defaultValue", path |-> "key:" \o lookupKey,
                     value |-> schema[lookupKey].defaultValue.value])

\* C5, amended: a key whose default resolves to a defined value, with no
\* loader yielding a value and the lookup not ended by a loader failure under
\* loaderError = "throws", resolves to Ok(default, "defaultValue", "key:<key>").
C5_Default ==
    (Done /\ Declared /\ schema[lookupKey].defaultValue.value.type # "undefined"
          /\ NoLoaderYields /\ ~AbortedByFailure) =>
        /\ Len(outputs) = Len(loaders)
        /\ result = Ok([loaderType |-> "defaultValue", path |-> "key:" \o lookupKey,
                        value |-> schema[lookupKey].defaultValue.value])

\* C5 witness: two loaders were asked, neither had a value, and the lazily
\* resolved default was returned.
C5_Witness ==
    /\ Done /\ Declared /\ Len(outputs) = 2 /\ NoLoaderYields
    /\ schema[lookupKey].defaultValue.lazy
    /\ result.isOk /\ result.value.loaderType = "defaultValue"

\* C6 as stated: a required key without default and without loader value
\* makes getEntry and get return the Missing Required Value error for that key.
C6_AsStated ==
    (Done /\ Declared /\ schema[lookupKey].notFoundError = JsBoolean(TRUE)
          /\ ~IsDefined(schema[lookupKey].defaultValue) /\ NoLoaderYields) =>
        /\ result = Err(VariableLookupError(lookupKey,
                          "Missing required value for key: " \o lookupKey))
        /\ get(result) = result

\* C6, amended: such a lookup never returns Ok; unless it was ended by a
\* loader failure under loaderError = "throws", getEntry and get return the
\* Missing Required Value error (a VariableLookupError) naming that key.
C6_Missing ==
    (Done /\ Declared /\ schema[lookupKey].notFoundError = JsBoolean(TRUE)
          /\ ~IsDefined(schema[lookupKey].defaultValue) /\ NoLoaderYields) =>
        /\ ~result.isOk
        /\ ~get(result).isOk
        /\ ~AbortedByFailure =>
              /\ result = Err(VariableLookupError(lookupKey,
                                "Missing required value for key: " \o lookupKey))
              /\ get(result) = result

\* C6 witness: a required key, one loader asked and empty, the error returned.
C6_Witness ==
    /\ Done /\ Declared /\ Len(outputs) >= 1 /\ NoLoaderYields
    /\ schema[lookupKey].notFoundError = JsBoolean(TRUE)
    /\ ~result.isOk /\ result.error.name = "VariableLookupError"
    /\ result.error.variableKey = lookupKey

\* C7 as stated: an optional key without default and without loader value
\* resolves to Ok(undefined) with no loaderType and the bare key as path.
C7_AsStated ==
    (Done /\ Declared /\ ~IsDefined(schema[lookupKey].defaultValue)
          /\ schema[lookupKey].notFoundError \in {JsUndefined, JsBoolean(FALSE)}
          /\ NoLoaderYields) =>
        result = Ok([loaderType |-> NoString, path |-> lookupKey,
                     value |-> JsUndefined])

\* C7, amended: the same, for a lookup not ended by a loader failure under
\* loaderError = "throws".
C7_SoftMissing ==
    (Done /\ Declared /\ ~IsDefined(schema[lookupKey].defaultValue)
          /\ schema[lookupKey].notFoundError \in {JsUndefined, JsBoolean(FALSE)}
          /\ NoLoaderYields /\ ~AbortedByFailure) =>
        /\ result = Ok([loaderType |-> NoString, path |-> lookupKey,
                        value |-> JsUndefined])
        /\ get(result) = Ok(JsUndefined)

\* C7 witness: an optional key with notFoundError = false, both loaders
\* empty, soft-missing returned.
C7_Witness ==
    /\ Done /\ Declared /\ Len(outputs) = 2 /\ NoLoaderYields
    /\ schema[lookupKey].notFoundError = JsBoolean(FALSE)
    /\ result.isOk /\ result.value.loaderType = NoString
    /\ result.value.value = JsUndefined

\* C8: under loaderError = "throws" a loader failure is the last thing the
\* lookup does: the failing loader is the last one resolved and invoked,
\* getEntry returns exactly its error, and neither a default nor a log line
\* follows.
C8_ThrowsAborts ==
    (Declared /\ options.loaderError = "throws") =>
        \A j \in 1..Len(outputs) :
            Failed(outputs[j]) =>
                /\ Done
                /\ j = Len(outputs)
                /\ InvokedInOrder(j)
                /\ result = outputs[j]
                /\ infoLog = <<>>

\* C8 witness: the first of two loaders failed, the key has a default, and
\* the lookup ended with that failure without asking the second loader.
C8_Witness ==
    /\ Done /\ Declared /\ options.loaderError = "throws"
    /\ Len(loaders) = 2 /\ Len(outputs) = 1 /\ Failed(outputs[1])
    /\ IsDefined(schema[lookupKey].defaultValue)
    /\ result = outputs[1]

\* What the loaders returned, with every failure replaced by "no value"
RECURSIVE WithoutFailures(_)
WithoutFailures(outs) ==
    IF outs = <<>> THEN <<>>
    ELSE <<IF Failed(Head(outs)) THEN Ok(NoData) ELSE Head(outs)>>
             \o WithoutFailures(Tail(outs))

\* The outcome the resolution algorithm prescribes for loaders that return
\* outs without failing: first value parsed, else default, else required
\* error, else soft-missing.
Prescribed(outs) ==
    LET hits == {j \in 1..Len(outs) : Yields(outs[j])}
        d == schema[lookupKey].defaultValue.value
    IN  IF hits # {}
        THEN LET j == CHOOSE h \in hits : \A g \in hits : h <= g
                 raw == outs[j].value.value
             IN  IF ParserAccepts(raw)
                 THEN Ok([loaderType |-> LoaderTypeOf(loaders[j]),
                          path |-> outs[j].value.path, value |-> TypedValue(raw)])
                 ELSE Err(ParseFailure(raw))
        ELSE IF d.type # "undefined"
        THEN Ok([loaderType |-> "defaultValue", path |-> "key:" \o lookupKey,
                 value |-> d])
        ELSE IF schema[lookupKey].notFoundError = JsBoolean(TRUE)
        THEN Err(VariableLookupError(lookupKey,
                   "Missing required value for key: " \o lookupKey))
        ELSE Ok([loaderType |-> NoString, path |-> lookupKey, value |-> JsUndefined])

FailureCount == Cardinality({j \in 1..Len(outputs) : Failed(outputs[j])})

\* C9: with loaderError "log" or unset, every loader failure is logged as one
\* warning and the lookup goes on: it ends only at a loader that yields or
\* after the last loader, and its outcome is the one prescribed for the same
\* loader results with each failure replaced by "no value".
C9_LogContinues ==
    (Declared /\ options.loaderError # "throws") =>
        /\ Len(warnLog) = FailureCount
        /\ \A j \in 1..Len(outputs) :
              (Failed(outputs[j]) /\ j < Len(loaders)) =>
                  (Len(outputs) > j \/ (pc = "iter" /\ idx = j + 1))
        /\ Done => /\ result = Prescribed(WithoutFailures(outputs))
                   /\ (Len(outputs) = Len(loaders)
                         \/ Yields(outputs[Len(outputs)]))

\* C9 witness: loaderError unset, the first loader failed, the second one
\* yielded, and the lookup returned the second loader's value.
C9_Witness ==
    /\ Done /\ Declared /\ options.loaderError = NoString
    /\ Len(outputs) = 2 /\ Failed(outputs[1]) /\ Yields(outputs[2])
    /\ result.isOk /\ result.value.loaderType = LoaderTypeOf(loaders[2])
    /\ Len(warnLog) = 1

\* C10: when a loader yields a defined, non-empty raw value that the parser
\* rejects, the lookup ends there in either loaderError mode: getEntry
\* returns the parse error, no later loader is resolved or invoked, no
\* default is substituted and the dedup logger emits nothing.
C10_ParseErrorReturned ==
    Declared =>
        \A j \in 1..Len(outputs) :
            (Yields(outputs[j]) /\ ~ParserAccepts(outputs[j].value.value)) =>
                /\ Done
                /\ j = Len(outputs)
                /\ InvokedInOrder(j)
                /\ result = Err(ParseFailure(outputs[j].value.value))
                /\ infoLog = <<>>

\* C10 witness: under "throws", with a default configured and a second loader
\* in the list, the first loader's raw value was rejected and returned as the
\* error.
C10_Witness ==
    /\ Done /\ Declared /\ options.loaderError = "throws"
    /\ Len(loaders) = 2 /\ Len(outputs) = 1 /\ Yields(outputs[1])
    /\ IsDefined(schema[lookupKey].defaultValue)
    /\ ~result.isOk /\ result.error.name = "TypeError"

\* C11: a call for a key that is not in the schema returns, from getEntry,
\* get and getString alike, Err with the VariableLookupError "not defined in
\* schema", having resolved and invoked no loader, produced no default and
\* no info line, and left the dedup record as it was.
C11_UndeclaredKey ==
    [][ (pc' = "done" /\ lookupKey' \notin DOMAIN schema) =>
          LET r == result'
          IN  /\ ~r.isOk
              /\ r.error.name = "VariableLookupError"
              /\ r.error.variableKey = lookupKey'
              /\ r.error.message = "Key \"" \o lookupKey' \o "\" is not defined in schema"
              /\ get(r) = r
              /\ getString(r, SchemaOf(lookupKey')) = r
              /\ events' = <<>> /\ outputs' = <<>>
              /\ infoLog' = <<>> /\ warnLog' = <<>>
              /\ seenLog' = seenLog
      ]_vars

\* An undeclared key was looked up after a lookup of the declared key had
\* logged its line, and with loaders in the list.
C11_Witness ==
    /\ Done /\ ~Declared /\ ~result.isOk
    /\ Len(loaders) = 2
    /\ \E k \in DOMAIN schema : seenLog[k] # ""

\* The outcome of a lookup as a function of what its loaders returned: the
\* first failure when loaderError is "throws" and no loader yielded before
\* it, else the outcome prescribed with failures read as "no value".
Resolution(outs) ==
    LET fails == {j \in 1..Len(outs) : Failed(outs[j])}
        hits == {j \in 1..Len(outs) : Yields(outs[j])}
        early == {j \in fails : \A h \in hits : j < h}
    IN  IF options.loaderError = "throws" /\ early # {}
        THEN outs[CHOOSE j \in early : \A g \in early : j <= g]
        ELSE Prescribed(WithoutFailures(outs))

\* C12: the outcome of a getEntry call is determined by what the loaders
\* returned to it, so calls with the same loader outputs return the same
\* result; a successful call hands its rendered line to logger.info exactly
\* when loggingMode is "always" or the line differs from the last line
\* emitted for the key (none yet counts as different), so of two consecutive
\* calls with the same outputs only the first one logs; a failed call logs
\* nothing.
C12_DedupLogging ==
    [][ (pc = "iter" /\ pc' = "done") =>
          LET k == lookupKey
              r == result'
              line == LogOutput(k, r.value, schema[k])
          IN  /\ r = Resolution(outputs')
              /\ r.isOk =>
                    /\ IF options.loggingMode = "always" \/ line # lastInfo[k]
                       THEN infoLog' = <<line>>
                       ELSE infoLog' = <<>>
                    /\ lastInfo'[k] = line
              /\ ~r.isOk => (infoLog' = <<>> /\ lastInfo' = lastInfo)
      ]_vars

\* A successful call in "single" mode (here by default) that logged nothing,
\* its line being the one an earlier call had emitted.
C12_Witness ==
    /\ Done /\ Declared /\ result.isOk
    /\ options.loggingMode = NoString
    /\ Len(outputs) = 2 /\ Yields(outputs[2])
    /\ infoLog = <<>>
    /\ lastInfo[lookupKey] = LogOutput(lookupKey, result.value, schema[lookupKey])

\* C13: a call never rejects: when resolving a loader, a loader's
\* getValueResult, the parser or resolving a lazy default throws, the call
\* completes and returns Err.
C13_NeverRejects ==
    thrown \in {"resolve", "getValueResult", "parse", "default"} =>
        (pc = "done" /\ ~result.isOk)

\* C14: when rendering or emitting the log line throws during a lookup that
\* resolved to Ok, the call still completes and returns that Ok result.
C14_LogFailureHarmless ==
    thrown \in {"toLogString", "logger.info"} =>
        (pc = "done" /\ result.isOk)

\* C15: while getResultEntryList is consumed, one entry has been yielded per
\* loader invoked, the loaders having been resolved and invoked in list
\* order from the first one; each entry carries its loader's loaderType and
\* either the raw value and path the loader returned or its error; and the
\* list ends only after every loader was invoked, whatever the earlier ones
\* returned and whatever loaderError is.
C15_ResultEntryList ==
    pc \in {"list", "listed"} =>
        /\ Len(entries) = Len(outputs)
        /\ Len(entries) = idx - 1
        /\ Len(entries) <= Len(loaders)
        /\ InvokedInOrder(Len(entries))
        /\ pc = "listed" => Len(entries) = Len(loaders)
        /\ infoLog = <<>> /\ warnLog = <<>>
        /\ \A j \in 1..Len(entries) :
              /\ entries[j].loaderType = LoaderTypeOf(loaders[j])
              /\ IF outputs[j].isOk
                 THEN /\ entries[j].value = outputs[j].value.value
                      /\ entries[j].path = outputs[j].value.path
                      /\ entries[j].error = NoError
                 ELSE /\ entries[j].error = outputs[j].error
                      /\ entries[j].value = JsUndefined
                      /\ entries[j].path = NoString

\* With loaderError "throws", the list was consumed to its end although the
\* first loader failed and the second one yielded a value that the key's
\* parser rejects; the value is listed as the raw string.
C15_Witness ==
    /\ pc = "listed"
    /\ options.loaderError = "throws"
    /\ Len(loaders) = 2 /\ Len(entries) = 2
    /\ Failed(outputs[1]) /\ Yields(outputs[2])
    /\ entries[2].value = JsString("abc")
    /\ lookupKey \in DOMAIN schema /\ schema[lookupKey].parser = "Boolean"

\* C16: for a completed call of a declared key, getString returns
\* Ok(parser.toString(v)) when the lookup resolved to a value v that is not
\* undefined (false and the empty string included), Ok(undefined) when it
\* resolved to no value, and the Err of getEntry otherwise.
C16_GetString ==
    (Done /\ Declared) =>
        LET keySpec == schema[lookupKey]
        IN  IF ~result.isOk
            THEN getString(result, keySpec) = result
            ELSE IF result.value.value.type = "undefined"
            THEN getString(result, keySpec) = Ok(JsUndefined)
            ELSE getString(result, keySpec) =
                     Ok(toString(keySpec.parser, result.value.value))

\* The typed values a lookup can resolve to
ResolvedValues ==
    {JsString("abc"), JsString("true"), JsString("4637"),
     JsBoolean(TRUE), JsBoolean(FALSE)}

\* C20: for a key whose logFormat is "hidden", what a successful call logs
\* is the same whatever value it resolved to: with the value replaced by any
\* other one (same loaderType and path), the rendered line, the decision to
\* emit it and the line remembered for the key are unchanged. The lines
\* emitted before the call are then the same in both runs as well, so runs
\* that differ only in the values log the same lines at the same calls.
C20_HiddenValue ==
    [][ (/\ pc = "iter" /\ pc' = "done"
         /\ result'.isOk
         /\ schema[lookupKey].logFormat = "hidden") =>
          \A v \in ResolvedValues :
             LET k == lookupKey
                 other == [result'.value EXCEPT !.value = v]
                 line == LogOutput(k, other, schema[k])
             IN  /\ infoLog' = IF options.loggingMode = "always" \/ line # lastInfo[k]
                               THEN <<line>> ELSE <<>>
                 /\ lastInfo'[k] = line
                 /\ seenLog'[k] = line
      ]_vars

\* A later successful call for a hidden key found a value at the second
\* loader and logged nothing, the line for that loader and path having been
\* emitted before.
C20_Witness ==
    /\ Done /\ Declared /\ result.isOk
    /\ schema[lookupKey].logFormat = "hidden"
    /\ options.loggingMode # "always"
    /\ Len(outputs) = 2 /\ Yields(outputs[2])
    /\ result.value.value = JsString("abc")
    /\ infoLog = <<>>
    /\ lastInfo[lookupKey] # ""

\* ============================================== AzureSecretsConfigLoader
\* C17: a getRawValue that finds the loader disabled or the key unmapped
\* returns Ok with value undefined and leaves the cache, the remote calls and
\* the timers as they are, whatever is cached or in flight; a disabled
\* loader never starts a remote call, registers a promise or sets a timer.
C17_DisabledOrUnmapped ==
    [][ /\ azOptions.disabled =>
             (/\ valuePromises' = valuePromises /\ calls' = calls
              /\ timers' = timers /\ lookups' = lookups)
        /\ immediate' # immediate =>
             (/\ (azOptions.disabled \/ KeySecretMap[immediate'.key] = NoString)
              /\ immediate'.value = JsUndefined
              /\ valuePromises' = valuePromises /\ calls' = calls
              /\ timers' = timers /\ lookups' = lookups)
        /\ IsLookupStep => ~azOptions.disabled
      ]_vars

\* An unmapped key was looked up on an enabled loader while the promise of a
\* failed call was cached with its timer running and after further lookups.
C17_Witness ==
    /\ ~azOptions.disabled
    /\ immediate.key = "PORT"
    /\ immediate.value = JsUndefined
    /\ timers # {}
    /\ \E s \in Secrets : valuePromises[s].call # 0
    /\ Len(lookups) >= 2

\* C18: after reload() the cache holds no entry for any key until the next
\* lookup reaches it, and that lookup starts a fresh remote call and holds
\* its promise, whatever the removed entry was (in flight, succeeded, or
\* failed and inside its backoff window); and every lookup receives the
\* result of the call whose promise it holds, also when reload() removed the
\* entry while the call was in flight.
C18_Reload ==
    [][ /\ reloaded' => \A s \in Secrets : valuePromises'[s] = NoEntry
        /\ (IsLookupStep /\ reloaded) =>
              (/\ StartsCall
               /\ ThisLookup.call = Len(calls')
               /\ calls'[Len(calls')].status = "pending"
               /\ ThisLookup.result = "pending")
        /\ \A l \in 1..Len(lookups') :
              lookups'[l].result = calls'[lookups'[l].call].status
      ]_vars

\* reload() removed the entry of call c while c was in flight: the call d
\* started by the next lookup settled before c did, and the lookup holding
\* c's promise received c's value all the same.
C18_Witness ==
    \E c, d \in 1..Len(calls) :
       /\ c < d
       /\ calls[c].removedBy = "reload"
       /\ calls[c].status = "value"
       /\ calls[d].status # "pending"
       /\ calls[c].settledAt > calls[d].settledAt
       /\ \E l \in LookupsOf(c) : lookups[l].result = "value"

\* This step removes the cache entry of call c
RemovesEntryOf(c) == calls[c].removedBy = "none" /\ calls'[c].removedBy # "none"

\* C19: the cache entry of a call is removed only by reload(), by the
\* expiry of its own success TTL, or by the backoff timer of its own
\* failure, errExpireMs after it failed; so without a TTL the entry of a
\* call that is in flight or has succeeded is removed by reload() only.
C19_OwnRemovalOnly ==
    [][ \A c \in 1..Len(calls) :
          RemovesEntryOf(c) =>
             LET s == calls[c].secret
             IN  \/ /\ calls'[c].removedBy = "reload"
                    /\ reloaded'
                 \/ /\ calls'[c].removedBy = "ttl"
                    /\ azOptions.expireMs # NoMs
                    /\ valuePromises[s].call = c
                    /\ now > valuePromises[s].expires
                 \/ /\ calls'[c].removedBy = "timer"
                    /\ calls[c].status = "error"
                    /\ now >= calls[c].settledAt + errExpireDelay
      ]_vars

====
